---- MODULE Spec2Model ----
(***************************************************************************)
(* Model of generate_swagger.js: a one-shot generator that reads db-uri    *)
(* from postgrest.conf, introspects the database catalog and writes an     *)
(* OpenAPI document to swagger.json and swagger.yml.                       *)
(*                                                                         *)
(* JavaScript values are modelled as follows.                              *)
(*   - a plain object used as a map (result, paths, properties) is a       *)
(*     sequence of [key, value] records in insertion order, keys unique;   *)
(*   - an object literal with fixed fields is a record;                    *)
(*   - an optional value is a sequence of length 0 or 1;                   *)
(*   - the config text is a sequence of tokens: "K" the literal db-uri,    *)
(*     "S" a whitespace character, "E" the character =, "Q" the character  *)
(*     ", "X" any other character.                                         *)
(***************************************************************************)
EXTENDS Naturals, Sequences, FiniteSets, TLC

VARIABLES
    conf,      \* optional config text: <<>> when postgrest.conf is unreadable
    pc,        \* position of the async main function (the await it is parked on)
    pub,       \* database: public base tables, name -> optional column rows
    oth,       \* database: base tables of another schema, same shape
    client,    \* pg Client: "none", "connecting", "open", "ending", "ended"
    rows,      \* getTablesAndColumns: tables.rows (table names)
    idx,       \* getTablesAndColumns: position of the for loop in rows
    result,    \* getTablesAndColumns: the object being filled
    missing,   \* names whose column query ran when the public table was gone
    tables,    \* the catalog handed to generateOpenApi
    openapi,   \* optional document returned by generateOpenApi
    files,     \* output files: name -> "absent" | "partial" | "complete"
    io,        \* the I/O operations the run has started, in order
    errs,      \* number of console.error reports
    exitCode   \* optional process exit status

vars == <<conf, pc, pub, oth, client, rows, idx, result, missing, tables,
          openapi, files, io, errs, exitCode>>

\* ------------------------------------------------------------------ bounds

\* Longest column sequence of a catalog entry handed to the builder.
MaxCols == 2

\* ------------------------------------------------------- JS object helpers

Range(s) == {s[i] : i \in 1..Len(s)}

Keys(obj) == {obj[i].key : i \in 1..Len(obj)}

\* obj[k] for a key the object has.
Get(obj, k) == obj[CHOOSE i \in 1..Len(obj) : obj[i].key = k].value

\* obj[k] = v: overwrite in place when the key exists, append otherwise.
ObjSet(obj, k, v) ==
    IF k \in Keys(obj)
    THEN [i \in 1..Len(obj) |->
            IF obj[i].key = k THEN [key |-> k, value |-> v] ELSE obj[i]]
    ELSE Append(obj, [key |-> k, value |-> v])

\* The object left by obj[keys[1]] = values[1], obj[keys[2]] = values[2],
\* ..., in that order, on an empty object: a key stands where its first
\* assignment put it and holds the value of its last one.
assignAll(keys, values) ==
    LET first == {i \in 1..Len(keys) : \A j \in 1..(i - 1) : keys[j] # keys[i]}
        nth(n) == CHOOSE i \in first : Cardinality({j \in first : j < i}) = n - 1
        last(k) == CHOOSE i \in 1..Len(keys) :
                      /\ keys[i] = k
                      /\ \A j \in (i + 1)..Len(keys) : keys[j] # k
    IN [n \in 1..Cardinality(first) |->
          [key |-> keys[nth(n)], value |-> values[last(keys[nth(n)])]]]

\* Object.fromEntries(pairs), a pair being [key, value].
fromEntries(pairs) ==
    assignAll([i \in 1..Len(pairs) |-> pairs[i][1]],
              [i \in 1..Len(pairs) |-> pairs[i][2]])

\* ------------------------------------------------------------------ mapType

\* The switch with a case added for bigint.
mapType_wide(pgType) ==
    CASE pgType = "integer" -> "integer"
      [] pgType = "bigint" -> "integer"
      [] pgType = "boolean" -> "boolean"
      [] pgType \in {"text", "character varying", "character"} -> "string"
      [] pgType \in {"timestamp without time zone",
                     "timestamp with time zone", "date"} -> "string"
      [] pgType \in {"numeric", "double precision", "real"} -> "number"
      [] OTHER -> "string"

mapType(pgType) ==
    CASE pgType = "integer" -> "integer"
      [] pgType = "boolean" -> "boolean"
      [] pgType \in {"text", "character varying", "character"} -> "string"
      [] pgType \in {"timestamp without time zone",
                     "timestamp with time zone", "date"} -> "string"
      [] pgType \in {"numeric", "double precision", "real"} -> "number"
      [] OTHER -> "string"

\* ---------------------------------------------------------- generateOpenApi

servers ==
    << [url |-> "http://localhost:3005", description |-> "Local PostgREST server"] >>

fixedParameters ==
    << [name |-> "limit", in |-> "query",
        description |-> "Maximum number of results to return",
        required |-> FALSE, schema |-> [type |-> "integer", minimum |-> 1]],
       [name |-> "offset", in |-> "query",
        description |-> "Number of results to skip",
        required |-> FALSE, schema |-> [type |-> "integer", minimum |-> 0]],
       [name |-> "order", in |-> "query",
        description |-> "Order results by column (e.g. col.asc, col.desc)",
        required |-> FALSE, schema |-> [type |-> "string"]] >>

\* columns.map(col => ({name: col.column_name, in: 'query', ...}))
filterParameters(columns) ==
    [i \in 1..Len(columns) |->
        [name |-> columns[i].column_name, in |-> "query",
         description |-> "Filter by " \o columns[i].column_name
                            \o " (" \o columns[i].data_type \o ")",
         required |-> FALSE,
         schema |-> [type |-> mapType(columns[i].data_type)]]]

headers ==
    << [name |-> "Accept", in |-> "header",
        description |-> "Response media type",
        required |-> FALSE,
        schema |-> [type |-> "string", default |-> "application/json"]],
       [name |-> "Prefer", in |-> "header",
        description |-> "PostgREST preferences (e.g. return=representation)",
        required |-> FALSE, schema |-> [type |-> "string"]] >>

\* Object.fromEntries(columns.map(col => [col.column_name, {type: ...}]))
properties(columns) ==
    fromEntries([i \in 1..Len(columns) |->
        <<columns[i].column_name, [type |-> mapType(columns[i].data_type)]>>])

\* The key without its leading slash.
pathKey_bare(table) == table

\* `/${table}`
pathKey(table) == "/" \o table

\* The value stored under paths[`/${table}`].
pathItem(table, columns) ==
    [get |->
       [summary |-> "List " \o table,
        parameters |-> fixedParameters \o filterParameters(columns) \o headers,
        responses |->
           ("200" :>
              [description |-> "Successful response",
               content |->
                  ("application/json" :>
                     [schema |->
                        [type |-> "array",
                         items |-> [type |-> "object",
                                    properties |-> properties(columns)]]])])]]

HasColumns(entry) == entry.value # <<>>

\* The loop with tables that have no columns left out.
buildPaths_skipEmpty(entries) ==
    assignAll([i \in 1..Len(SelectSeq(entries, HasColumns)) |->
                 pathKey(SelectSeq(entries, HasColumns)[i].key)],
              [i \in 1..Len(SelectSeq(entries, HasColumns)) |->
                 pathItem(SelectSeq(entries, HasColumns)[i].key,
                          SelectSeq(entries, HasColumns)[i].value)])

\* The for loop over Object.entries(tables): paths[`/${table}`] = {...}.
buildPaths(entries) ==
    assignAll([i \in 1..Len(entries) |-> pathKey(entries[i].key)],
              [i \in 1..Len(entries) |-> pathItem(entries[i].key, entries[i].value)])

generateOpenApi(tbls) ==
    [openapi |-> "3.0.0",
     info |-> [title |-> "PostgREST API", version |-> "1.0.0"],
     servers |-> servers,
     paths |-> buildPaths(tbls)]

\* ------------------------------------------------------------------ getDbUri

\* \s* from position i is greedy: the first position at or after i that
\* holds no whitespace (Len(text) + 1 when there is none).
skipWs(text, i) ==
    CHOOSE j \in i..(Len(text) + 1) :
        /\ \A m \in i..(j - 1) : text[m] = "S"
        /\ j <= Len(text) => text[j] # "S"

\* [^"]* from position i is greedy: the first position at or after i that
\* holds a quote (Len(text) + 1 when there is none).
skipNonQuote(text, i) ==
    CHOOSE j \in i..(Len(text) + 1) :
        /\ \A m \in i..(j - 1) : text[m] # "Q"
        /\ j <= Len(text) => text[j] = "Q"

\* The match below with ([^"]*) for the value: an empty value matches.
matchAt_star(text, i) ==
    IF text[i] # "K" THEN <<>>
    ELSE LET j == skipWs(text, i + 1)
         IN IF j > Len(text) \/ text[j] # "E" THEN <<>>
            ELSE LET k == skipWs(text, j + 1)
                 IN IF k > Len(text) \/ text[k] # "Q" THEN <<>>
                    ELSE LET e == skipNonQuote(text, k + 1)
                         IN IF e > Len(text) THEN <<>>
                            ELSE << SubSeq(text, k + 1, e - 1) >>

\* The match of /db-uri\s*=\s*"([^"]+)"/ that starts at position i, as
\* <<capture>>, or <<>> when the pattern does not match there.
matchAt(text, i) ==
    IF text[i] # "K" THEN <<>>
    ELSE LET j == skipWs(text, i + 1)
         IN IF j > Len(text) \/ text[j] # "E" THEN <<>>
            ELSE LET k == skipWs(text, j + 1)
                 IN IF k > Len(text) \/ text[k] # "Q" THEN <<>>
                    ELSE LET e == skipNonQuote(text, k + 1)
                         IN IF e > Len(text) \/ e = k + 1 THEN <<>>
                            ELSE << SubSeq(text, k + 1, e - 1) >>

\* conf.match(...): the leftmost match, <<>> for null.
match(text) ==
    LET hits == {i \in 1..Len(text) : matchAt(text, i) # <<>>}
    IN IF hits = {} THEN <<>>
       ELSE CHOOSE m \in {matchAt(text, i) : i \in {h \in hits : \A g \in hits : h <= g}} : TRUE

\* getDbUri(confPath) on the optional file content: <<uri>> when it returns,
\* <<>> when it throws (readFileSync fails, or 'db-uri not found').
getDbUri(file) ==
    IF file = <<>> THEN <<>> ELSE match(file[1])

\* ------------------------------------------------------- values of the model

TableNames == {"books", "users"}

Column(n, t) == [column_name |-> n, data_type |-> t, is_nullable |-> "YES"]

\* Sequences over S of length at most n.
SeqsUpTo(S, n) == UNION {[1..k -> S] : k \in 0..n}

\* Sequences over S in which no element occurs twice.
Arrangements(S) == {q \in SeqsUpTo(S, Cardinality(S)) : Cardinality(Range(q)) = Len(q)}

\* Columns of the tables of the database.  Within one table a column name is
\* unique (the database enforces it).
DbColumns == {Column("id", "integer"), Column("title", "text")}

TableDefs == Arrangements(DbColumns)

\* A schema: each name is absent (<<>>) or a base table with its columns.
Schemas == [TableNames -> {<<>>} \cup {<<d>> : d \in TableDefs}]

\* Another schema of the same database; it may hold a table called users.
OtherSchemas == {s \in Schemas : s["books"] = <<>>}

\* Config texts: db-uri = "x", xdb-uri="xx"x, one with two db-uri lines, the
\* empty file, db-uri="" (empty value), db-uri = x (no quotes), db-uri "x"
\* (no =), an unterminated value, and a text that never mentions db-uri.
ConfTexts ==
    { <<"K", "S", "E", "S", "Q", "X", "Q">>,
      <<"X", "K", "E", "Q", "X", "X", "Q", "X">>,
      <<"K", "E", "Q", "Q", "S", "K", "E", "Q", "X", "S", "Q">>,
      <<>>,
      <<"K", "E", "Q", "Q">>,
      <<"K", "S", "E", "S", "X">>,
      <<"K", "S", "Q", "X", "Q">>,
      <<"K", "E", "Q", "X">>,
      <<"X", "S", "E", "S", "Q", "X", "Q">> }

OutputFiles == {"swagger.json", "swagger.yml"}

Op(name, arg) == [op |-> name, arg |-> arg]

\* ---------------------------------------------------------------- the catalog

\* SELECT table_name FROM information_schema.tables WHERE table_schema =
\* 'public' AND table_type = 'BASE TABLE': the names, in an order the query
\* does not fix.
tablesQuery ==
    LET present == {t \in TableNames : pub[t] # <<>>}
    IN {q \in Arrangements(present) : Len(q) = Cardinality(present)}

\* The rows of one schema for WHERE table_name = name.
rowsOf(schema, name) == IF schema[name] = <<>> THEN <<>> ELSE schema[name][1]

\* SELECT column_name, data_type, is_nullable FROM information_schema.columns
\* WHERE table_name = $1: the rows of every schema's table of that name; the
\* query fixes no order between the schemas.
columnsQuery(name) ==
    { rowsOf(pub, name) \o rowsOf(oth, name), rowsOf(oth, name) \o rowsOf(pub, name) }

\* ------------------------------------------------------------------- main

NoFiles == [f \in OutputFiles |-> "absent"]

\* What every run starts from, given the config file and the database.
Idle ==
    /\ client = "none"
    /\ rows = <<>>
    /\ idx = 0
    /\ result = <<>>
    /\ missing = {}
    /\ tables = <<>>
    /\ openapi = <<>>
    /\ files = NoFiles
    /\ io = <<>>
    /\ errs = 0
    /\ exitCode = <<>>

Init ==
    /\ conf \in {<<>>} \cup {<<c>> : c \in ConfTexts}
    /\ pub \in Schemas
    /\ oth \in OtherSchemas
    /\ pc = "start"
    /\ Idle

\* The handler without process.exit(1): the error is reported and the
\* process then ends with status 0.
Catch_swallow ==
    /\ errs' = errs + 1
    /\ exitCode' = <<0>>
    /\ pc' = "exited"

\* catch (err) { console.error('Error:', err); process.exit(1); }
Catch ==
    /\ errs' = errs + 1
    /\ exitCode' = <<1>>
    /\ pc' = "exited"

\* The body of the async function up to its first await: getDbUri, new
\* Client, client.connect().
Start ==
    /\ pc = "start"
    /\ LET dbUri == getDbUri(conf)
       IN IF dbUri = <<>>
          THEN /\ Catch
               /\ io' = <<Op("readFile", <<"postgrest.conf">>)>>
               /\ UNCHANGED client
          ELSE /\ client' = "connecting"
               /\ io' = <<Op("readFile", <<"postgrest.conf">>), Op("connect", dbUri[1])>>
               /\ pc' = "connect"
               /\ UNCHANGED <<errs, exitCode>>
    /\ UNCHANGED <<conf, pub, oth, rows, idx, result, missing, tables, openapi, files>>

\* client.connect() resolves; getTablesAndColumns sends the table listing.
ConnectOk ==
    /\ pc = "connect"
    /\ client' = "open"
    /\ io' = Append(io, Op("query", <<"tables">>))
    /\ pc' = "tables"
    /\ UNCHANGED <<conf, pub, oth, rows, idx, result, missing, tables, openapi,
                   files, errs, exitCode>>

\* client.connect() rejects.
ConnectFail ==
    /\ pc = "connect"
    /\ Catch
    /\ UNCHANGED <<conf, pub, oth, client, rows, idx, result, missing, tables,
                   openapi, files, io>>

\* The table listing resolves: result = {}, and the loop sends the first
\* column query, or with no rows the function returns and client.end() is
\* called.
TablesOk ==
    /\ pc = "tables"
    /\ \E listing \in tablesQuery :
          /\ rows' = listing
          /\ result' = <<>>
          /\ IF listing = <<>>
             THEN /\ tables' = <<>>
                  /\ client' = "ending"
                  /\ io' = Append(io, Op("end", <<>>))
                  /\ idx' = idx
                  /\ pc' = "end"
             ELSE /\ idx' = 1
                  /\ io' = Append(io, Op("query", <<"columns", listing[1]>>))
                  /\ pc' = "columns"
                  /\ UNCHANGED <<tables, client>>
    /\ UNCHANGED <<conf, pub, oth, missing, openapi, files, errs, exitCode>>

\* The table listing rejects.
TablesFail ==
    /\ pc = "tables"
    /\ Catch
    /\ UNCHANGED <<conf, pub, oth, client, rows, idx, result, missing, tables,
                   openapi, files, io>>

\* The column query of rows[idx] resolves: result[row.table_name] =
\* columns.rows; then the next query, or return result and client.end().
ColumnsOk ==
    /\ pc = "columns"
    /\ \E got \in columnsQuery(rows[idx]) :
          /\ result' = ObjSet(result, rows[idx], got)
          /\ missing' = IF pub[rows[idx]] = <<>> THEN missing \cup {rows[idx]} ELSE missing
          /\ IF idx < Len(rows)
             THEN /\ idx' = idx + 1
                  /\ io' = Append(io, Op("query", <<"columns", rows[idx + 1]>>))
                  /\ UNCHANGED <<tables, client, pc>>
             ELSE /\ tables' = result'
                  /\ client' = "ending"
                  /\ io' = Append(io, Op("end", <<>>))
                  /\ pc' = "end"
                  /\ idx' = idx
    /\ UNCHANGED <<conf, pub, oth, rows, openapi, files, errs, exitCode>>

\* The column query of rows[idx] rejects.
ColumnsFail ==
    /\ pc = "columns"
    /\ Catch
    /\ UNCHANGED <<conf, pub, oth, client, rows, idx, result, missing, tables,
                   openapi, files, io>>

\* fs.writeFileSync that throws: the file was not created, or was created
\* and not written in full.
FailedWrites == {"absent", "partial"}

\* client.end() resolves and the function runs to its end without another
\* await: generateOpenApi, both writes, console.log.  A write may throw.
EndOk ==
    /\ pc = "end"
    /\ client' = "ended"
    /\ openapi' = <<generateOpenApi(tables)>>
    /\ \/ \E left \in FailedWrites :
             /\ files' = [files EXCEPT !["swagger.json"] = left]
             /\ io' = Append(io, Op("writeFile", <<"swagger.json">>))
             /\ Catch
       \/ \E left \in FailedWrites :
             /\ files' = [files EXCEPT !["swagger.json"] = "complete",
                                       !["swagger.yml"] = left]
             /\ io' = io \o <<Op("writeFile", <<"swagger.json">>),
                              Op("writeFile", <<"swagger.yml">>)>>
             /\ Catch
       \/ /\ files' = [f \in OutputFiles |-> "complete"]
          /\ io' = io \o <<Op("writeFile", <<"swagger.json">>),
                           Op("writeFile", <<"swagger.yml">>),
                           Op("log", <<>>)>>
          /\ exitCode' = <<0>>
          /\ pc' = "exited"
          /\ UNCHANGED errs
    /\ UNCHANGED <<conf, pub, oth, rows, idx, result, missing, tables>>

\* client.end() rejects.
EndFail ==
    /\ pc = "end"
    /\ Catch
    /\ UNCHANGED <<conf, pub, oth, client, rows, idx, result, missing, tables,
                   openapi, files, io>>

\* Another session drops a public table while the catalog is being read.
DropTable ==
    /\ pc \in {"tables", "columns"}
    /\ \E t \in TableNames :
          /\ pub[t] # <<>>
          /\ pub' = [pub EXCEPT ![t] = <<>>]
    /\ UNCHANGED <<conf, pc, oth, client, rows, idx, result, missing, tables,
                   openapi, files, io, errs, exitCode>>

\* The steps of the program: each await settles one way or the other.
Step ==
    \/ Start
    \/ ConnectOk
    \/ ConnectFail
    \/ TablesOk
    \/ TablesFail
    \/ ColumnsOk
    \/ ColumnsFail
    \/ EndOk
    \/ EndFail

Next == Step \/ DropTable

Spec == Init /\ [][Next]_vars

\* Every pending promise settles, so the program keeps taking steps.
FairSpec == Spec /\ WF_vars(Step)

\* ------------------------------------------- generateOpenApi on its own

\* Columns of the catalogs handed to the builder: an ordinary name under
\* two declared types (a known one and an unknown one), and two names that a
\* fixed parameter and a header also use.
BuildColumns ==
    { Column("id", "integer"), Column("id", "uuid"),
      Column("limit", "integer"), Column("Accept", "text") }

\* The objects getTablesAndColumns can build from the column sequences colSeqs:
\* distinct table names, in any insertion order.
CatalogsOver(colSeqs) ==
    UNION { {[i \in 1..Len(names) |-> [key |-> names[i], value |-> cs[i]]] :
                cs \in [1..Len(names) -> colSeqs]} :
            names \in Arrangements(TableNames) }

DistinctNames(columns) ==
    \A i, j \in 1..Len(columns) :
        columns[i].column_name = columns[j].column_name => i = j

\* Declared types: the eleven of the switch and others.
PgTypes ==
    {"integer", "boolean", "text", "character varying", "character",
     "timestamp without time zone", "timestamp with time zone", "date",
     "numeric", "double precision", "real",
     "uuid", "bigint", "smallint", "Integer", "jsonb", "ARRAY", ""}

PositionalNames == <<"c1", "c2", "c3", "c4">>

\* One table whose i-th column is called ci and has any declared type.
TypedCatalogs ==
    { << [key |-> "books",
          value |-> [i \in 1..Len(ts) |-> Column(PositionalNames[i], ts[i])]] >> :
      ts \in SeqsUpTo(PgTypes, MaxCols) }

NoDatabase == [t \in TableNames |-> <<>>]

BuilderStart ==
    /\ conf = <<>>
    /\ pub = NoDatabase
    /\ oth = NoDatabase
    /\ pc = "generate"
    /\ client = "none"
    /\ rows = <<>>
    /\ idx = 0
    /\ result = <<>>
    /\ missing = {}
    /\ openapi = <<>>
    /\ files = NoFiles
    /\ io = <<>>
    /\ errs = 0
    /\ exitCode = <<>>

\* Any catalog, column names repeated or not.
InitBuild ==
    /\ tables \in CatalogsOver(SeqsUpTo(BuildColumns, MaxCols))
    /\ BuilderStart

\* Catalogs in which the column names of a table are distinct.
InitBuildDistinct ==
    /\ tables \in CatalogsOver({cs \in SeqsUpTo(BuildColumns, MaxCols) : DistinctNames(cs)})
    /\ BuilderStart

InitTypes ==
    /\ tables \in TypedCatalogs
    /\ BuilderStart

\* const openapi = generateOpenApi(tables);
Generate ==
    /\ pc = "generate"
    /\ openapi' = <<generateOpenApi(tables)>>
    /\ pc' = "generated"
    /\ UNCHANGED <<conf, pub, oth, client, rows, idx, result, missing, tables,
                   files, io, errs, exitCode>>

SpecBuild == InitBuild /\ [][Generate]_vars

SpecBuildDistinct == InitBuildDistinct /\ [][Generate]_vars

SpecTypes == InitTypes /\ [][Generate]_vars

\* ------------------------------------------------- reading the document

\* The GET operation of table t in the document.
OperationOf(doc, t) == Get(doc.paths, "/" \o t).get

ParamNames(operation) ==
    [i \in 1..Len(operation.parameters) |-> operation.parameters[i].name]

PropertiesOf(operation) ==
    operation.responses["200"].content["application/json"].schema.items.properties

ColumnNames(columns) == [i \in 1..Len(columns) |-> columns[i].column_name]

NoRepeat(q) == \A i, j \in 1..Len(q) : q[i] = q[j] => i = j

Generated == pc = "generated"

\* ---------------------------------------------------------------- claims

\* C1: the document's paths has exactly one key per table of the catalog,
\* the key being "/" followed by the table name, no key more and none less;
\* for the empty catalog paths is empty and openapi, info and servers are
\* present all the same.
C1_OnePathPerTable ==
    Generated =>
        LET doc == openapi[1]
        IN /\ Keys(doc.paths) = {"/" \o tables[i].key : i \in 1..Len(tables)}
           /\ Len(doc.paths) = Len(tables)
           /\ NoRepeat([i \in 1..Len(doc.paths) |-> doc.paths[i].key])
           /\ {"openapi", "info", "servers", "paths"} \subseteq DOMAIN doc
           /\ doc.openapi = "3.0.0"
           /\ doc.info = [title |-> "PostgREST API", version |-> "1.0.0"]
           /\ Len(doc.servers) = 1
           /\ tables = <<>> => doc.paths = <<>>

C1_Witness ==
    /\ Generated
    /\ Len(tables) = 2
    /\ Len(openapi[1].paths) = 2

\* C2: the parameter list of every table's GET operation is limit, offset,
\* order, the column names in column order, Accept, Prefer, and no two of
\* its entries have the same name.
C2_ParametersExactNoDuplicates ==
    Generated =>
        \A i \in 1..Len(tables) :
            LET names == ParamNames(OperationOf(openapi[1], tables[i].key))
            IN /\ names = <<"limit", "offset", "order">>
                            \o ColumnNames(tables[i].value)
                            \o <<"Accept", "Prefer">>
               /\ NoRepeat(names)

\* C3: mapType returns one of integer, boolean, string, number for every
\* declared type: integer for integer, boolean for boolean, number for
\* numeric, double precision and real, string for the text and date/time
\* types, and string for every type the table does not list.
C3_MapTypeTotalClosed ==
    Generated =>
        \A i \in 1..Len(tables[1].value) :
            LET declared == tables[1].value[i].data_type
                mapped == OperationOf(openapi[1], "books").parameters[3 + i].schema.type
            IN /\ mapped \in {"integer", "boolean", "string", "number"}
               /\ declared = "integer" => mapped = "integer"
               /\ declared = "boolean" => mapped = "boolean"
               /\ declared \in {"numeric", "double precision", "real"} => mapped = "number"
               /\ declared \in {"text", "character varying", "character",
                               "timestamp without time zone",
                               "timestamp with time zone", "date"} => mapped = "string"
               /\ declared \notin {"integer", "boolean", "numeric", "double precision",
                                  "real", "text", "character varying", "character",
                                  "timestamp without time zone",
                                  "timestamp with time zone", "date"} => mapped = "string"

C3_Witness ==
    /\ Generated
    /\ Len(tables[1].value) = 2
    /\ tables[1].value[1].data_type = "bigint"
    /\ tables[1].value[2].data_type = "numeric"
    /\ OperationOf(openapi[1], "books").parameters[5].schema.type = "number"

\* The catalog has been handed to generateOpenApi and the document built.
Built == openapi # <<>>

\* C4: for every table the properties of the 200 response's items are
\* exactly the table's columns, each mapped to {type: mapType(declared
\* type)}: as many properties as columns, and as many as filter parameters.
C4_OnePropertyPerColumn ==
    Built =>
        \A i \in 1..Len(tables) :
            LET columns == tables[i].value
                operation == OperationOf(openapi[1], tables[i].key)
                props == PropertiesOf(operation)
            IN /\ Len(props) = Len(columns)
               /\ Len(operation.parameters) - 5 = Len(columns)
               /\ \A c \in 1..Len(columns) :
                     /\ props[c].key = columns[c].column_name
                     /\ props[c].value.type = operation.parameters[3 + c].schema.type

\* C5: a table whose column sequence is empty gets a path whose parameter
\* list is limit, offset, order, Accept, Prefer and whose response schema
\* has the empty mapping as properties; building the document does not fail.
C5_EmptyColumnSequence ==
    /\ pc = "generate" => ENABLED Generate
    /\ Generated =>
          \A i \in 1..Len(tables) :
              tables[i].value = <<>> =>
                  /\ ("/" \o tables[i].key) \in Keys(openapi[1].paths)
                  /\ ParamNames(OperationOf(openapi[1], tables[i].key))
                        = <<"limit", "offset", "order", "Accept", "Prefer">>
                  /\ PropertiesOf(OperationOf(openapi[1], tables[i].key)) = <<>>

C5_Witness ==
    /\ Generated
    /\ Len(tables) = 2
    /\ tables[1].value = <<>>
    /\ tables[2].value # <<>>
    /\ Len(OperationOf(openapi[1], tables[1].key).parameters) = 5

\* ---------------------------------------------------------- claims on a run

Exited == pc = "exited"

Failed == exitCode = <<1>>

\* getTablesAndColumns has returned its result (client.end() was called).
Returned == client \in {"ending", "ended"}

Written(f) == files[f] # "absent"

\* C6: a run that ends because of a failure has written neither output file
\* or both, and has emitted no document from a partially read catalog.
C6_NoPartialOutput ==
    (Exited /\ Failed) =>
        /\ Written("swagger.json") <=> Written("swagger.yml")
        /\ \A f \in OutputFiles : files[f] # "partial"
        /\ Built => Keys(tables) = Range(rows)

FinalStates ==
    /\ Exited <=> exitCode # <<>>
    /\ errs <= 1
    /\ exitCode = <<0>> =>
          /\ \A f \in OutputFiles : files[f] = "complete"
          /\ errs = 0
          /\ client = "ended"
          /\ io[Len(io)] = Op("log", <<>>)
    /\ exitCode # <<0>> => files["swagger.yml"] # "complete"
    /\ Exited => (Failed <=> errs = 1)
    /\ NoRepeat(io)

\* C7: every run ends, with one outcome: status 0 only after both files
\* were written, and a failure reported once and ended with a non-zero
\* status, no step being tried twice.
C7_OneOutcome == []FinalStates /\ <>Exited

C7_Witness ==
    /\ Exited
    /\ Failed
    /\ files["swagger.json"] = "complete"
    /\ Len(rows) = 2

\* C8: a table of the listing that is gone when its column query runs is
\* not in the catalog getTablesAndColumns returns (the function fails or
\* leaves the table out).
C8_DroppedTableNotReturned ==
    Returned => \A t \in missing : t \notin Keys(tables)

\* The declared pattern: db-uri, whitespace, =, whitespace, a quote, one
\* character or more that is no quote, a quote.
HasDbUri(text) ==
    \E i, j, k, e \in 1..Len(text) :
        /\ i < j /\ j < k /\ k + 1 < e
        /\ text[i] = "K" /\ text[j] = "E" /\ text[k] = "Q" /\ text[e] = "Q"
        /\ \A m \in (i + 1)..(j - 1) : text[m] = "S"
        /\ \A m \in (j + 1)..(k - 1) : text[m] = "S"
        /\ \A m \in (k + 1)..(e - 1) : text[m] # "Q"

\* C9: with a config text that has no match for the db-uri pattern the run
\* ends with an error and has done no I/O beyond reading the config: no
\* connection, no query, no output file.
C9_NoDbUriNoIo ==
    (conf # <<>> /\ ~HasDbUri(conf[1]) /\ pc # "start") =>
        /\ Exited
        /\ Failed
        /\ errs = 1
        /\ client = "none"
        /\ io = <<Op("readFile", <<"postgrest.conf">>)>>
        /\ files = NoFiles

C9_Witness ==
    /\ conf = << <<"K", "E", "Q", "Q">> >>
    /\ Exited
    /\ Failed

\* C10: with the database unchanged since the listing, the returned catalog
\* has the public base tables as its keys and, for each, the columns of the
\* public table and no other, so no column name twice.
C10_CatalogExact ==
    (Returned /\ Range(rows) = {t \in TableNames : pub[t] # <<>>}) =>
        /\ Keys(tables) = {t \in TableNames : pub[t] # <<>>}
        /\ \A t \in Keys(tables) :
              /\ Get(tables, t) = pub[t][1]
              /\ NoRepeat(ColumnNames(Get(tables, t)))

====
